---- MODULE Spec2Model ----
(***************************************************************************)
(* Browser session lifecycle of the Camoufox MCP server.                   *)
(*                                                                         *)
(* The repository holds two server classes with the same lifecycle code:   *)
(* the package camoufox_mcp (server/base.py + tools/*.py, used by main.py) *)
(* and the single-file camoufox_mcp_server.py.  The variable impl says     *)
(* which of the two is running; it never changes.                          *)
(*                                                                         *)
(* Tool calls run as cooperative asyncio tasks.  A task runs without       *)
(* interruption from one await of a library coroutine to the next, so one  *)
(* action of the model is the code between two such awaits.  The outcome   *)
(* of a library call (return or raise) is chosen when the call completes.  *)
(***************************************************************************)
EXTENDS Integers, FiniteSets, Sequences, TLC

NumTasks == 2
RaceTasks == 3
MaxLaunch == 3
MaxPages == 2
WaitPolls == 50
RacePolls == 2
MaxLen == 4
MaxClock == 2

None == 0
\* Task ids; Init starts NumTasks of them, InitRace starts RaceTasks.
Tasks == 1..(IF NumTasks > RaceTasks THEN NumTasks ELSE RaceTasks)
Impls == {"modular", "legacy"}
\* persistent_context and whether user_data_dir is set; without
\* persistent_context the directory does not change the startup.
Configs ==
  {[persistent_context |-> FALSE, user_data_dir |-> FALSE],
   [persistent_context |-> TRUE, user_data_dir |-> TRUE],
   [persistent_context |-> TRUE, user_data_dir |-> FALSE]}
BrowserIds == 1..(MaxLaunch + 1)
PageIds == 1..(MaxPages + 1)

VARIABLES impl, config, wait_polls, client, server, nextBrowser, bstate,
          nextPage, pstate, task, page_bytes, clock, files, shot,
          captcha_solver, CAPTCHA_AVAILABLE, listed, routed,
          port, fdtable, sys_stdout, redirect

vars == <<impl, config, wait_polls, client, server, nextBrowser, bstate,
          nextPage, pstate, task, page_bytes, clock, files, shot,
          captcha_solver, CAPTCHA_AVAILABLE, listed, routed,
          port, fdtable, sys_stdout, redirect>>

\* The session variables and the variables of the screenshot tool.
sessionVars == <<impl, config, wait_polls, client, server, nextBrowser, bstate,
                 nextPage, pstate, task>>
shotVars == <<page_bytes, clock, files, shot>>
toolVars == <<captcha_solver, CAPTCHA_AVAILABLE, listed, routed>>
redirectVars == <<port, fdtable, sys_stdout, redirect>>

\* The tools a client calls; client[t] is what the client of task t calls.
\* PageTools are the tools that make one library call on the page.
PageTools == {"get_content", "wait_for", "screenshot", "execute_js",
              "set_geolocation"}
Tools == {"navigate", "close", "click", "type_text"} \cup PageTools
\* The tools whose handler reads a required argument with arguments[...].
RequiredArgs == {"navigate", "click", "type_text", "execute_js",
                 "set_geolocation"}
\* A tool name that call_tool does not know.
UnknownTool == "unknown"
\* The clients of the first task call every tool, those of the others the
\* lifecycle tools and click.
LifecycleTools == {"navigate", "close", "click"}
\* Where three tasks run: two clients navigate, the third closes and
\* operates on the page.
RaceTools == {"close", "click", "type_text", "get_content", UnknownTool}
\* Where the wait loop has its full length: one client calls these, the
\* other navigates.
WaitTools == {"navigate", "close", "click", "type_text", "get_content",
              UnknownTool}


(***************************************************************************)
(* Server fields set by CamoufoxMCPServer.__init__.                        *)
(***************************************************************************)
InitServer ==
  [browser |-> None, browser_instance |-> None, browser_context |-> None,
   page |-> None, browser_starting |-> FALSE]

Ready(s) == s.browser_context # None /\ ~s.browser_starting
Starting(s) == s.browser_starting
Absent(s) == s.browser_context = None /\ ~s.browser_starting
AllNull(s) == s.browser = None /\ s.browser_context = None /\ s.page = None

NoCalls == [launch |-> 0, new_page |-> 0, goto |-> 0, release |-> 0]
NoTrack == [pre |-> InitServer, allOk |-> FALSE, swallowed |-> FALSE,
            afterClose |-> FALSE, calls |-> NoCalls]
NoEns == [kind |-> "none", how |-> "none", launchFailed |-> FALSE, polls |-> 0,
          s |-> InitServer]
NoRes == [tool |-> "none", isError |-> FALSE, text |-> "none", s |-> InitServer,
          solo |-> FALSE, track |-> NoTrack]

(***************************************************************************)
(* A task: pc is the await it is suspended at, op the tool it runs, mgr    *)
(* the object of the pending library call, polls the sleeps of the wait    *)
(* loop so far, cause the exception the navigate handler is handling.      *)
(* The other fields observe the run: solo says that no other task has run  *)
(* since the call began, track is kept for solo calls only (the server at  *)
(* the call, whether no library call raised into an except clause of the   *)
(* tool, whether an exception was logged or replaced by a default, the     *)
(* library calls made), ens describes the exit of _ensure_browser in the step just       *)
(* taken and res the result returned in the step just taken; both says     *)
(* that _close_browser_resources found a page and a browser, pageRel how   *)
(* its page.close() ended, rel whether the step just taken invoked a       *)
(* release and whether that object's release had been invoked before, use  *)
(* whether a task resumed in the step just taken used the page handle      *)
(* while it was null or called a page whose close() had been invoked.      *)
(***************************************************************************)
IdleTask ==
  [pc |-> "idle", op |-> "none", mgr |-> None, polls |-> 0, cause |-> "none",
   launchFailed |-> FALSE, both |-> FALSE, pageRel |-> "none", rel |-> "none",
   use |-> "none",
   solo |-> FALSE, lastSoloClose |-> FALSE,
   track |-> NoTrack, ens |-> NoEns, res |-> NoRes]

\* A task id that is never started.
OffTask == [IdleTask EXCEPT !.pc = "off"]

Inc(n) == IF n < 2 THEN n + 1 ELSE 2

\* The release (__aexit__ or close()) of an object in state st is invoked:
\* "again" when it had been invoked on that object before.
Released(st) == IF st = "closed" THEN "again" ELSE "first"

(***************************************************************************)
(* A world w is the part of the state one task step reads and writes:      *)
(* w.s the server fields, w.nb / w.bs the browser objects constructed so   *)
(* far and their state, w.np / w.ps the pages created so far and their      *)
(* state, w.me the task.                                                   *)
(***************************************************************************)
World(t) ==
  [s |-> server, nb |-> nextBrowser, bs |-> bstate, np |-> nextPage,
   ps |-> pstate,
   me |-> [task[t] EXCEPT !.ens = NoEns, !.res = NoRes, !.rel = "none",
                          !.use = "none"]]

Count(w, call) ==
  IF w.me.solo THEN [w EXCEPT !.me.track.calls[call] = Inc(@)] ELSE w

Failed(w) ==
  IF w.me.solo THEN [w EXCEPT !.me.track.allOk = FALSE] ELSE w

\* A resumed task calls a method of page p or of a locator made from it.
UsePage(w, p) ==
  IF p = None THEN [w EXCEPT !.me.use = "null"]
  ELSE IF w.ps[p] = "closed" THEN [w EXCEPT !.me.use = "released"]
  ELSE w

Swallowed(w) ==
  IF w.me.solo THEN [w EXCEPT !.me.track.swallowed = TRUE] ELSE w

\* The tool handler returns a CallToolResult and the task ends.
Finish(w, isError, text) ==
  [w EXCEPT !.me = [IdleTask EXCEPT
     !.lastSoloClose = (w.me.op = "close" /\ w.me.solo),
     !.ens = w.me.ens,
     !.rel = w.me.rel,
     !.use = w.me.use,
     !.res = [tool |-> w.me.op, isError |-> isError, text |-> text, s |-> w.s,
              solo |-> w.me.solo, track |-> w.me.track]]]

(***************************************************************************)
(* _close_browser_resources: page.close() if self.page, then               *)
(* browser.__aexit__ if self.browser; the fields are reset in the finally  *)
(* blocks.  Its callers: close_browser / _close (result "closed") and the  *)
(* except handlers of NavigationTools.navigate (error result).             *)
(***************************************************************************)
CloseReturn(w) ==
  IF w.me.op = "close" THEN Finish(w, FALSE, "closed")
  ELSE Finish(w, TRUE, w.me.cause)

CloseBrowserPart(w) ==
  IF w.s.browser # None
  THEN Count([w EXCEPT !.bs[w.s.browser] = "closed",
                       !.me.rel = Released(w.bs[w.s.browser]),
                       !.me.pc = "close_aexit",
                       !.me.mgr = w.s.browser], "release")
  ELSE CloseReturn(w)

close_browser_resources(w) ==
  LET w1 == [w EXCEPT !.me.both = (w.s.page # None /\ w.s.browser # None),
                      !.me.pageRel = "none"] IN
  IF w.s.page # None
  THEN Count([w1 EXCEPT !.ps[w.s.page] = "closed",
                        !.me.rel = Released(w.ps[w.s.page]),
                        !.me.pc = "close_page", !.me.mgr = w.s.page], "release")
  ELSE CloseBrowserPart(w1)

ClosePageFinally(w) ==
  CloseBrowserPart([w EXCEPT !.s.page = None, !.me.mgr = None])

ClosePageReturned(w) ==
  ClosePageFinally([w EXCEPT !.me.pageRel = "returned"])

\* page.close() raising ends the close: the browser is not released.
ClosePageRaised_Propagates(w) ==
  CloseReturn([w EXCEPT !.s.page = None, !.me.mgr = None, !.me.pageRel = "raised"])

\* Both except clauses log the exception; the finally block runs.
ClosePageRaised(w) ==
  ClosePageFinally(Swallowed([w EXCEPT !.me.pageRel = "raised"]))

CloseAexitFinally(w) ==
  CloseReturn([w EXCEPT !.s.browser = None,
                        !.s.browser_instance = None,
                        !.s.browser_context = None])

\* Both except clauses log the exception; the finally block runs.
CloseAexitRaised(w) == CloseAexitFinally(Swallowed(w))

(***************************************************************************)
(* navigate after _ensure_browser.  The package version checks self.page   *)
(* and closes the browser resources in every except handler; the           *)
(* single-file version creates the page when there is none and its except  *)
(* handlers only build the error result.                                   *)
(***************************************************************************)
NavFail(w, cause) ==
  IF impl = "modular"
  THEN close_browser_resources([w EXCEPT !.me.cause = cause, !.me.mgr = None])
  ELSE Finish(w, TRUE, cause)

InvokeGoto(w) ==
  IF w.s.page = None
  THEN NavFail(w, "attribute_error")
  ELSE Count([w EXCEPT !.me.pc = "goto", !.me.mgr = w.s.page], "goto")

AfterEnsure(w) ==
  IF impl = "modular"
  THEN IF w.s.page = None THEN NavFail(w, "page_none") ELSE InvokeGoto(w)
  ELSE IF w.s.page = None
       THEN IF w.s.browser_context = None
            THEN NavFail(w, "attribute_error")
            ELSE Count([w EXCEPT !.me.pc = "new_page",
                                 !.me.mgr = w.s.browser_context], "new_page")
       ELSE InvokeGoto(w)

NewPageReturned(w) ==
  InvokeGoto([w EXCEPT !.np = w.np + 1, !.ps[w.np + 1] = "open",
                       !.s.page = w.np + 1])

NewPageRaised(w) == NavFail(Failed(w), "new_page_error")

GotoReturned(w) ==
  IF w.s.page = None
  THEN NavFail(UsePage(w, None), "attribute_error")
  ELSE UsePage([w EXCEPT !.me.pc = "title", !.me.mgr = w.s.page], w.s.page)

GotoRaised(w) == NavFail(Failed(w), "goto_error")

TitleReturned(w) ==
  IF w.s.page = None
  THEN NavFail(UsePage(w, None), "attribute_error")
  ELSE Finish(w, FALSE, "navigated")

\* asyncio.TimeoutError of the wait_for around title(): the title becomes
\* "Page title unavailable".
TitleTimedOut(w) == TitleReturned(Swallowed(w))

TitleRaised(w) == NavFail(Failed(w), "title_error")

EnsureReturned(w, kind) ==
  AfterEnsure([w EXCEPT !.me.ens = [kind |-> kind, how |-> "return",
                                    launchFailed |-> w.me.launchFailed,
                                    polls |-> w.me.polls, s |-> w.s],
                        !.me.polls = 0, !.me.mgr = None,
                        !.me.launchFailed = FALSE])

EnsureRaised(w, kind) ==
  NavFail([w EXCEPT !.me.ens = [kind |-> kind, how |-> "raise",
                                launchFailed |-> w.me.launchFailed,
                                polls |-> w.me.polls, s |-> w.s],
                    !.me.polls = 0, !.me.mgr = None,
                    !.me.launchFailed = FALSE],
          IF kind = "wait" THEN "startup_timeout" ELSE "startup_error")

(***************************************************************************)
(* _ensure_browser                                                         *)
(***************************************************************************)
cleanup_browser_on_error(w) ==
  IF w.s.browser # None
  THEN Count([w EXCEPT !.bs[w.s.browser] = "closed",
                       !.me.rel = Released(w.bs[w.s.browser]),
                       !.me.pc = "cleanup_aexit",
                       !.me.mgr = w.s.browser], "release")
  ELSE EnsureRaised(w, "launch")

CleanupFinally(w) ==
  EnsureRaised([w EXCEPT !.s.browser = None,
                         !.s.browser_instance = None,
                         !.s.browser_context = None,
                         !.s.page = None,
                         !.s.browser_starting = FALSE], "launch")

\* An except clause that leaves _browser_starting set.
StartupHandler_KeepsFlag(w) ==
  cleanup_browser_on_error(w)

\* The four except clauses of the startup try block do the same.
StartupHandler(w) ==
  cleanup_browser_on_error([w EXCEPT !.s.browser_starting = FALSE])

\* Leaving the "async with self.browser" block calls __aexit__ on the manager.
WithExit(w, pcNext) ==
  Count([w EXCEPT !.bs[w.me.mgr] = "closed",
                  !.me.rel = Released(w.bs[w.me.mgr]),
                  !.me.pc = pcNext], "release")

\* The startup that returns without clearing _browser_starting.
EnsureSuccess_KeepsFlag(w) ==
  EnsureReturned(w, "launch")

EnsureSuccess(w) ==
  EnsureReturned([w EXCEPT !.s.browser_starting = FALSE], "launch")

\* One pass of the wait loop: the test of browser_context, then the sleep,
\* and after wait_polls sleeps the final test.  wait_polls is the length of
\* the range the loop runs over: WaitPolls under SpecWait, the shorter
\* RacePolls elsewhere.
WaitLoop(w) ==
  IF w.s.browser_context # None THEN EnsureReturned(w, "wait")
  ELSE IF w.me.polls < wait_polls
       THEN [w EXCEPT !.me.pc = "sleep", !.me.polls = w.me.polls + 1]
       ELSE EnsureRaised(w, "wait")

\* _ensure_browser that launches whenever no startup is in progress.
ensure_browser_Relaunches(w) ==
  IF ~w.s.browser_starting
  THEN LET w1 == [w EXCEPT !.s.browser_starting = TRUE] IN
       IF config.persistent_context /\ ~config.user_data_dir
       THEN StartupHandler(w1)
       ELSE Count([w1 EXCEPT !.nb = w.nb + 1,
                             !.s.browser = w.nb + 1,
                             !.bs[w.nb + 1] = "new",
                             !.me.pc = "aenter",
                             !.me.mgr = w.nb + 1], "launch")
  ELSE WaitLoop(w)

ensure_browser(w) ==
  IF w.s.browser_context = None /\ ~w.s.browser_starting
  THEN LET w1 == [w EXCEPT !.s.browser_starting = TRUE] IN
       IF config.persistent_context /\ ~config.user_data_dir
       THEN StartupHandler(w1)
       ELSE Count([w1 EXCEPT !.nb = w.nb + 1,
                             !.s.browser = w.nb + 1,
                             !.bs[w.nb + 1] = "new",
                             !.me.pc = "aenter",
                             !.me.mgr = w.nb + 1], "launch")
  ELSE IF w.s.browser_starting
       THEN WaitLoop(w)
       ELSE EnsureReturned(w, "noop")

AenterReturned(w) ==
  LET w1 == [w EXCEPT !.bs[w.me.mgr] = IF @ = "new" THEN "open" ELSE @] IN
  IF config.persistent_context
  THEN WithExit([w1 EXCEPT !.s.browser_context = w.me.mgr,
                           !.s.browser_instance = None], "with_aexit")
  ELSE [w1 EXCEPT !.s.browser_instance = w.me.mgr, !.me.pc = "new_context"]

AenterRaised(w) ==
  StartupHandler(Failed([w EXCEPT !.me.launchFailed = TRUE]))

NewContextReturned(w) ==
  WithExit([w EXCEPT !.s.browser_context = w.me.mgr], "with_aexit")

NewContextRaised(w) ==
  WithExit(Failed(w), "with_aexit_exc")

(***************************************************************************)
(* InteractionTools.click / _click                                         *)
(***************************************************************************)
\* click without the test of self.page.
click_Unguarded(w) ==
  [w EXCEPT !.me.pc = "click_wait_for", !.me.mgr = w.s.page]

click(w) ==
  IF w.s.page = None
  THEN Finish(w, TRUE, "not_initialized")
  ELSE [w EXCEPT !.me.pc = "click_wait_for", !.me.mgr = w.s.page]

ClickWaitForReturned(w) == UsePage([w EXCEPT !.me.pc = "click_click"], w.me.mgr)

ClickReturned(w) == Finish(w, FALSE, "clicked")

ClickRaised(w) == Finish(Failed(w), TRUE, "click_error")

(***************************************************************************)
(* InteractionTools.type_text / _type: wait_for, clear() when the clear    *)
(* argument is set, then type().                                           *)
(***************************************************************************)
type_text(w) ==
  IF w.s.page = None
  THEN Finish(w, TRUE, "not_initialized")
  ELSE [w EXCEPT !.me.pc = "type_wait_for", !.me.mgr = w.s.page]

TypeWaitForReturned(w, clear) ==
  UsePage([w EXCEPT !.me.pc = IF clear THEN "type_clear" ELSE "type_type"],
          w.me.mgr)

TypeClearReturned(w) == UsePage([w EXCEPT !.me.pc = "type_type"], w.me.mgr)

TypeReturned(w) == Finish(w, FALSE, "typed")

TypeRaised(w) == Finish(Failed(w), TRUE, "type_error")

(***************************************************************************)
(* get_content, wait_for, screenshot, execute_js, set_geolocation: the     *)
(* test of self.page, one awaited call on the page or a locator of it,     *)
(* and the result or the error result of the except clauses.               *)
(***************************************************************************)
page_tool(w) ==
  IF w.s.page = None
  THEN Finish(w, TRUE, "not_initialized")
  ELSE [w EXCEPT !.me.pc = "page_call", !.me.mgr = w.s.page]

PageCallReturned(w) == Finish(w, FALSE, "done")

PageCallRaised(w) == Finish(Failed(w), TRUE, "page_call_error")

(***************************************************************************)
(* redirect_stdout_to_stderr: port is whether config.server.port is set    *)
(* (HTTP mode), fdtable the process's file descriptors, sys_stdout the     *)
(* descriptor of the object sys.stdout names, redirect[t] the values the   *)
(* with blocks task t is inside have saved (stdout_copy or                 *)
(* original_stdout), innermost last.                                       *)
(***************************************************************************)
MaxNest == 2

stdout_fd == 1
stderr_fd == 2
Fds == 1..(2 + MaxNest * RaceTasks)

\* Where text written to standard output ends up.
StdoutDestination == fdtable[sys_stdout]

\* os.dup: the lowest descriptor not in use.
dup == CHOOSE fd \in Fds : /\ fdtable[fd] = "closed"
                           /\ \A g \in Fds : g < fd => fdtable[g] # "closed"

\* The state of the redirection variables where nothing redirects.
NoRedirect ==
  /\ port = FALSE
  /\ fdtable = [fd \in Fds |-> IF fd = stdout_fd THEN "stdout"
                                ELSE IF fd = stderr_fd THEN "stderr"
                                ELSE "closed"]
  /\ sys_stdout = stdout_fd
  /\ redirect = [t \in Tasks |-> <<>>]

\* A task enters a with block of the context manager and reaches the await
\* inside it: navigate's block, and inside it the block of _ensure_browser.
EnterRedirect(t) ==
  /\ Len(redirect[t]) < MaxNest
  /\ IF ~port
     THEN LET stdout_copy == dup IN
          /\ fdtable' = [fdtable EXCEPT ![stdout_copy] = fdtable[stdout_fd],
                                        ![stdout_fd] = fdtable[stderr_fd]]
          /\ redirect' = [redirect EXCEPT ![t] = Append(@, stdout_copy)]
          /\ UNCHANGED sys_stdout
     ELSE LET original_stdout == sys_stdout IN
          /\ sys_stdout' = stderr_fd
          /\ redirect' = [redirect EXCEPT ![t] = Append(@, original_stdout)]
          /\ UNCHANGED fdtable
  /\ UNCHANGED port
  /\ UNCHANGED sessionVars
  /\ UNCHANGED shotVars
  /\ UNCHANGED toolVars

\* The awaited work of the innermost block ends, returning or raising: the
\* finally clause of the context manager.
ExitRedirect(t) ==
  /\ redirect[t] # <<>>
  /\ LET saved == redirect[t][Len(redirect[t])] IN
     IF ~port
     THEN /\ fdtable' = [fdtable EXCEPT ![stdout_fd] = fdtable[saved],
                                        ![saved] = "closed"]
          /\ UNCHANGED sys_stdout
     ELSE /\ sys_stdout' = saved
          /\ UNCHANGED fdtable
  /\ redirect' = [redirect EXCEPT ![t] = SubSeq(@, 1, Len(@) - 1)]
  /\ UNCHANGED port
  /\ UNCHANGED sessionVars
  /\ UNCHANGED shotVars
  /\ UNCHANGED toolVars

(***************************************************************************)
(* The tool table: the names list_tools returns and the handler call_tool  *)
(* routes a name to.  captcha_solver is config.browser.captcha_solver      *)
(* after __init__, CAPTCHA_AVAILABLE whether camoufox_captcha imported,    *)
(* listed the last list_tools result, routed the last call_tool routing.   *)
(***************************************************************************)
BaseTools ==
  {"browser_navigate", "browser_click", "browser_type", "browser_wait_for",
   "browser_get_content", "browser_screenshot", "browser_execute_js",
   "browser_set_geolocation", "browser_close", "get_server_version"}

CaptchaTool == "browser_solve_captcha"

ToolNames == BaseTools \cup {CaptchaTool, "browser_unknown"}

\* CaptchaTools.is_available
is_available == CAPTCHA_AVAILABLE /\ captcha_solver

\* The condition that guards the CAPTCHA tool in list_tools and call_tool.
CaptchaEnabled ==
  IF impl = "modular" THEN captcha_solver /\ is_available
  ELSE captcha_solver /\ CAPTCHA_AVAILABLE

\* list_tools: the package appends get_server_version to the base list; the
\* single-file server appends it inside the CAPTCHA branch.
list_tools ==
  IF impl = "modular"
  THEN BaseTools \cup (IF CaptchaEnabled THEN {CaptchaTool} ELSE {})
  ELSE (BaseTools \ {"get_server_version"})
         \cup (IF CaptchaEnabled THEN {CaptchaTool, "get_server_version"} ELSE {})

NoHandler == "none"

\* call_tool: the handler a name is routed to.
Handler(name) ==
  CASE name = "browser_navigate" -> "navigate"
    [] name = "browser_click" -> "click"
    [] name = "browser_type" -> "type_text"
    [] name = "browser_wait_for" -> "wait_for"
    [] name = "browser_get_content" -> "get_content"
    [] name = "browser_screenshot" -> "screenshot"
    [] name = "browser_execute_js" -> "execute_js"
    [] name = "browser_set_geolocation" -> "set_geolocation"
    [] name = "get_server_version" -> "get_server_version"
    [] name = "browser_close" -> "close"
    [] name = CaptchaTool -> IF CaptchaEnabled THEN "solve_captcha" ELSE NoHandler
    [] OTHER -> NoHandler

NoListing == [done |-> FALSE, names |-> {}]
NoRouting == [name |-> "none", handler |-> NoHandler]

\* The state of the tool table variables where the table is not modelled.
NoToolCalls ==
  /\ captcha_solver = FALSE
  /\ CAPTCHA_AVAILABLE = FALSE
  /\ listed = NoListing
  /\ routed = NoRouting

\* A client lists the tools.
ListTools ==
  /\ listed' = [done |-> TRUE, names |-> list_tools]
  /\ UNCHANGED <<captcha_solver, CAPTCHA_AVAILABLE, routed>>
  /\ UNCHANGED sessionVars
  /\ UNCHANGED shotVars
  /\ UNCHANGED redirectVars

\* A client calls a tool by name; only the routing is recorded.
RouteTool ==
  /\ \E name \in ToolNames :
       routed' = [name |-> name, handler |-> Handler(name)]
  /\ UNCHANGED <<captcha_solver, CAPTCHA_AVAILABLE, listed>>
  /\ UNCHANGED sessionVars
  /\ UNCHANGED shotVars
  /\ UNCHANGED redirectVars

(***************************************************************************)
(* ContentTools.screenshot / _screenshot in detail: the file the library   *)
(* writes, the file the tool reads back, and the base64 text it returns.   *)
(* page_bytes[t] is the PNG capture the page produces for the operation    *)
(* of task t, clock the value of int(time.time()), files the content of    *)
(* output_dir, shot[t] the screenshot operation of task t.                 *)
(***************************************************************************)
ByteValues == {77, 255}

RECURSIVE SeqsUpTo(_, _)
SeqsUpTo(S, n) ==
  IF n = 0 THEN {<<>>}
  ELSE LET shorter == SeqsUpTo(S, n - 1) IN
       shorter \cup {Append(q, x) : q \in {r \in shorter : Len(r) = n - 1}, x \in S}

\* The captures of the first task's page, and those of the other tasks'.
Captures == SeqsUpTo(ByteValues, MaxLen)
OtherCaptures == {<<0, 77>>}

\* The base64 alphabet as character codes: A-Z, a-z, 0-9, "+", "/".
B64Char(i) ==
  IF i < 26 THEN 65 + i
  ELSE IF i < 52 THEN 97 + (i - 26)
  ELSE IF i < 62 THEN 48 + (i - 52)
  ELSE IF i = 62 THEN 43 ELSE 47

B64Pad == 61

B64Index(c) == CHOOSE i \in 0..63 : B64Char(i) = c

\* One group of up to three bytes becomes four characters.
B64Group(g) ==
  LET b0 == g[1]
      b1 == IF Len(g) >= 2 THEN g[2] ELSE 0
      b2 == IF Len(g) >= 3 THEN g[3] ELSE 0 IN
  <<B64Char(b0 \div 4),
    B64Char((b0 % 4) * 16 + (b1 \div 16)),
    IF Len(g) >= 2 THEN B64Char((b1 % 16) * 4 + (b2 \div 64)) ELSE B64Pad,
    IF Len(g) >= 3 THEN B64Char(b2 % 64) ELSE B64Pad>>

\* base64.b64encode that leaves out the padding of the last group.
RECURSIVE b64encode_NoPadding(_)
b64encode_NoPadding(bytes) ==
  IF Len(bytes) = 0 THEN <<>>
  ELSE IF Len(bytes) <= 3
       THEN SelectSeq(B64Group(bytes), LAMBDA c : c # B64Pad)
       ELSE B64Group(SubSeq(bytes, 1, 3))
              \o b64encode_NoPadding(SubSeq(bytes, 4, Len(bytes)))

\* base64.b64encode(...).decode(): the text of the image content item.
RECURSIVE b64encode(_)
b64encode(bytes) ==
  IF Len(bytes) = 0 THEN <<>>
  ELSE IF Len(bytes) <= 3 THEN B64Group(bytes)
       ELSE B64Group(SubSeq(bytes, 1, 3)) \o b64encode(SubSeq(bytes, 4, Len(bytes)))

\* What a client's base64 decoder makes of the text; text whose length is
\* not a multiple of four is rejected.
RECURSIVE b64decode(_)
b64decode(text) ==
  IF Len(text) = 0 THEN <<>>
  ELSE IF Len(text) < 4 THEN <<-1>>
  ELSE LET c0 == B64Index(text[1])
           c1 == B64Index(text[2])
           c2 == IF text[3] = B64Pad THEN 0 ELSE B64Index(text[3])
           c3 == IF text[4] = B64Pad THEN 0 ELSE B64Index(text[4])
           b0 == c0 * 4 + (c1 \div 16)
           b1 == (c1 % 16) * 16 + (c2 \div 4)
           b2 == (c2 % 4) * 64 + c3
           group == IF text[3] = B64Pad THEN <<b0>>
                    ELSE IF text[4] = B64Pad THEN <<b0, b1>>
                    ELSE <<b0, b1, b2>> IN
       group \o b64decode(SubSeq(text, 5, Len(text)))

\* File names: the filename argument, or camoufox_screenshot_<ts>.png.
GivenName == [given |-> TRUE, ts |-> 0]
GeneratedName(ts) == [given |-> FALSE, ts |-> ts]
FileNames == {GivenName} \cup {GeneratedName(ts) : ts \in 1..MaxClock}

\* os.path.join(output_dir, filename)
FilePath(name) == [dir |-> "output_dir", name |-> name]

NoFile == [exists |-> FALSE, bytes |-> <<>>]
NoShotResult == [isError |-> FALSE, content |-> <<>>]
IdleShot ==
  [pc |-> "idle", name |-> GivenName, wrote |-> FALSE, overlap |-> FALSE,
   res |-> NoShotResult]

\* The state of the screenshot variables where no screenshot is modelled.
NoShots ==
  /\ page_bytes = [t \in Tasks |-> <<>>]
  /\ clock = 1
  /\ files = [n \in FileNames |-> NoFile]
  /\ shot = [t \in Tasks |-> IdleShot]

ShotError(text) ==
  [isError |-> TRUE, content |-> <<[type |-> "text", text |-> <<text>>]>>]

\* The result of a screenshot that read the bytes data from the file name.
ShotSuccess(name, data) ==
  [isError |-> FALSE,
   content |-> <<[type |-> "image", data |-> b64encode(data),
                  mimeType |-> "image/png"],
                 [type |-> "text",
                  text |-> <<"Screenshot saved: ", FilePath(name)>>]>>]

InFlightOn(name) ==
  {u \in Tasks : shot[u].pc = "screenshot" /\ shot[u].name = name}

\* screenshot up to the await of page.screenshot(path=filepath).
CallScreenshot(t) ==
  /\ t <= NumTasks
  /\ shot[t].pc \in {"idle", "done"}
  /\ \E has_filename, dirs_ok \in BOOLEAN :
       LET name == IF has_filename THEN GivenName ELSE GeneratedName(clock) IN
       IF server.page = None
       THEN shot' = [shot EXCEPT ![t] = [IdleShot EXCEPT
                       !.pc = "done", !.res = ShotError("not_initialized")]]
       ELSE IF ~dirs_ok
       THEN shot' = [shot EXCEPT ![t] = [IdleShot EXCEPT
                       !.pc = "done", !.res = ShotError("screenshot_error")]]
       ELSE shot' = [u \in Tasks |->
                       IF u = t
                       THEN [IdleShot EXCEPT !.pc = "screenshot", !.name = name,
                                             !.overlap = (InFlightOn(name) # {})]
                       ELSE IF u \in InFlightOn(name)
                            THEN [shot[u] EXCEPT !.overlap = TRUE]
                            ELSE shot[u]]
  /\ UNCHANGED <<page_bytes, clock, files>>
  /\ UNCHANGED sessionVars
  /\ UNCHANGED toolVars
  /\ UNCHANGED redirectVars

\* The library writes the capture to the path during the awaited call.
ScreenshotWrites(t) ==
  /\ shot[t].pc = "screenshot"
  /\ ~shot[t].wrote
  /\ files' = [files EXCEPT ![shot[t].name] =
                  [exists |-> TRUE, bytes |-> page_bytes[t]]]
  /\ shot' = [shot EXCEPT ![t].wrote = TRUE]
  /\ UNCHANGED <<page_bytes, clock>>
  /\ UNCHANGED sessionVars
  /\ UNCHANGED toolVars
  /\ UNCHANGED redirectVars

\* The awaited call returns: open(filepath, "rb"), read, encode, result.
ScreenshotReturned(t) ==
  /\ shot[t].pc = "screenshot"
  /\ shot[t].wrote
  /\ shot' = [shot EXCEPT ![t].pc = "done",
                          ![t].res = ShotSuccess(shot[t].name,
                                                 files[shot[t].name].bytes)]
  /\ UNCHANGED <<page_bytes, clock, files>>
  /\ UNCHANGED sessionVars
  /\ UNCHANGED toolVars
  /\ UNCHANGED redirectVars

\* The awaited call, or open(), raises: the except clauses.
ScreenshotRaised(t) ==
  /\ shot[t].pc = "screenshot"
  /\ shot' = [shot EXCEPT ![t].pc = "done",
                          ![t].res = ShotError("screenshot_error")]
  /\ UNCHANGED <<page_bytes, clock, files>>
  /\ UNCHANGED sessionVars
  /\ UNCHANGED toolVars
  /\ UNCHANGED redirectVars

\* A second passes.
Tick ==
  /\ clock < MaxClock
  /\ clock' = clock + 1
  /\ UNCHANGED <<page_bytes, files, shot>>
  /\ UNCHANGED sessionVars
  /\ UNCHANGED toolVars
  /\ UNCHANGED redirectVars

(***************************************************************************)
(* Tool entry points                                                       *)
(***************************************************************************)
StartCall(t, op) ==
  LET w == World(t)
      alone == \A u \in Tasks \ {t} : task[u].pc \in {"idle", "off"} IN
  [w EXCEPT !.me = [IdleTask EXCEPT
     !.op = op,
     !.solo = alone,
     !.track = IF alone
               THEN [pre |-> server, allOk |-> TRUE, swallowed |-> FALSE,
                     afterClose |-> task[t].lastSoloClose, calls |-> NoCalls]
               ELSE NoTrack]]

navigate(w) == ensure_browser(w)

\* call_tool with a name that matches no branch.
unknown_tool(w) == Finish(w, TRUE, "unknown_tool")

\* The exception leaves call_tool.
call_tool_except_Reraises(w) == Finish(Failed(w), FALSE, "exception")

\* The except clauses of call_tool: arguments["url"] and the like raise
\* KeyError before the tool is entered.
call_tool_except(w) == Finish(Failed(w), TRUE, "tool_error")

close_browser(w) == close_browser_resources(w)

(***************************************************************************)
(* Commit a step of task t.  The records ens and res describe the step     *)
(* just taken, so every step of another task erases them; a task that      *)
(* starts a call ends the solo run of every other task.                    *)
(***************************************************************************)
Others(u, starts) ==
  [task[u] EXCEPT !.ens = NoEns, !.res = NoRes, !.rel = "none",
                  !.use = "none",
                  !.solo = IF starts THEN FALSE ELSE @,
                  !.track = IF starts THEN NoTrack ELSE @,
                  !.lastSoloClose = IF starts THEN FALSE ELSE @]

Commit(t, w, starts) ==
  /\ w.nb <= MaxLaunch
  /\ w.np <= MaxPages
  /\ server' = w.s
  /\ nextBrowser' = w.nb
  /\ bstate' = w.bs
  /\ nextPage' = w.np
  /\ pstate' = w.ps
  /\ task' = [u \in Tasks |-> IF u = t THEN w.me ELSE Others(u, starts)]
  /\ UNCHANGED <<impl, config, wait_polls, client>>
  /\ UNCHANGED shotVars
  /\ UNCHANGED toolVars
  /\ UNCHANGED redirectVars

At(t, pc) == task[t].pc = pc

CallNavigate(t) ==
  /\ At(t, "idle")
  /\ "navigate" \in client[t]
  /\ Commit(t, navigate(StartCall(t, "navigate")), TRUE)

CallClose(t) ==
  /\ At(t, "idle")
  /\ "close" \in client[t]
  /\ Commit(t, close_browser(StartCall(t, "close")), TRUE)

CallClick(t) ==
  /\ At(t, "idle")
  /\ "click" \in client[t]
  /\ Commit(t, click(StartCall(t, "click")), TRUE)

CallType(t) ==
  /\ At(t, "idle")
  /\ "type_text" \in client[t]
  /\ Commit(t, type_text(StartCall(t, "type_text")), TRUE)

CallPageTool(t) ==
  /\ At(t, "idle")
  /\ \E op \in PageTools \cap client[t] :
       Commit(t, page_tool(StartCall(t, op)), TRUE)

CallUnknown(t) ==
  /\ At(t, "idle")
  /\ UnknownTool \in client[t]
  /\ Commit(t, unknown_tool(StartCall(t, UnknownTool)), TRUE)

CallMissingArgument(t) ==
  /\ At(t, "idle")
  /\ \E op \in RequiredArgs \cap client[t] :
       Commit(t, call_tool_except(StartCall(t, op)), TRUE)

AenterDone(t) ==
  /\ At(t, "aenter")
  /\ \E ok \in BOOLEAN :
       Commit(t, IF ok THEN AenterReturned(World(t)) ELSE AenterRaised(World(t)), FALSE)

NewContextDone(t) ==
  /\ At(t, "new_context")
  /\ \E ok \in BOOLEAN :
       Commit(t, IF ok THEN NewContextReturned(World(t))
                 ELSE NewContextRaised(World(t)), FALSE)

WithAexitDone(t) ==
  /\ At(t, "with_aexit")
  /\ \E ok \in BOOLEAN :
       Commit(t, IF ok THEN EnsureSuccess(World(t))
                 ELSE StartupHandler(Failed(World(t))), FALSE)

\* __aexit__ called with the exception of the block: that exception, or the
\* one __aexit__ raises, reaches the except clauses.
WithAexitExcDone(t) ==
  /\ At(t, "with_aexit_exc")
  /\ Commit(t, StartupHandler(World(t)), FALSE)

CleanupAexitDone(t) ==
  /\ At(t, "cleanup_aexit")
  /\ Commit(t, CleanupFinally(World(t)), FALSE)

SleepDone(t) ==
  /\ At(t, "sleep")
  /\ Commit(t, WaitLoop(World(t)), FALSE)

NewPageDone(t) ==
  /\ At(t, "new_page")
  /\ \E ok \in BOOLEAN :
       Commit(t, IF ok THEN NewPageReturned(World(t)) ELSE NewPageRaised(World(t)), FALSE)

GotoDone(t) ==
  /\ At(t, "goto")
  /\ \E ok \in BOOLEAN :
       Commit(t, IF ok THEN GotoReturned(World(t)) ELSE GotoRaised(World(t)), FALSE)

TitleDone(t) ==
  /\ At(t, "title")
  /\ \E out \in {"return", "timeout", "raise"} :
       Commit(t, CASE out = "return" -> TitleReturned(World(t))
                   [] out = "timeout" -> TitleTimedOut(World(t))
                   [] out = "raise" -> TitleRaised(World(t)), FALSE)

ClosePageDone(t) ==
  /\ At(t, "close_page")
  /\ \E ok \in BOOLEAN :
       Commit(t, IF ok THEN ClosePageReturned(World(t))
                 ELSE ClosePageRaised(World(t)), FALSE)

CloseAexitDone(t) ==
  /\ At(t, "close_aexit")
  /\ \E ok \in BOOLEAN :
       Commit(t, IF ok THEN CloseAexitFinally(World(t))
                 ELSE CloseAexitRaised(World(t)), FALSE)

ClickWaitForDone(t) ==
  /\ At(t, "click_wait_for")
  /\ \E ok \in BOOLEAN :
       Commit(t, IF ok THEN ClickWaitForReturned(World(t))
                 ELSE ClickRaised(World(t)), FALSE)

ClickDone(t) ==
  /\ At(t, "click_click")
  /\ \E ok \in BOOLEAN :
       Commit(t, IF ok THEN ClickReturned(World(t)) ELSE ClickRaised(World(t)), FALSE)

TypeWaitForDone(t) ==
  /\ At(t, "type_wait_for")
  /\ \E ok, clear \in BOOLEAN :
       Commit(t, IF ok THEN TypeWaitForReturned(World(t), clear)
                 ELSE TypeRaised(World(t)), FALSE)

TypeClearDone(t) ==
  /\ At(t, "type_clear")
  /\ \E ok \in BOOLEAN :
       Commit(t, IF ok THEN TypeClearReturned(World(t))
                 ELSE TypeRaised(World(t)), FALSE)

TypeDone(t) ==
  /\ At(t, "type_type")
  /\ \E ok \in BOOLEAN :
       Commit(t, IF ok THEN TypeReturned(World(t)) ELSE TypeRaised(World(t)), FALSE)

PageCallDone(t) ==
  /\ At(t, "page_call")
  /\ \E ok \in BOOLEAN :
       Commit(t, IF ok THEN PageCallReturned(World(t))
                 ELSE PageCallRaised(World(t)), FALSE)

Init ==
  /\ impl \in Impls
  /\ config \in Configs
  /\ wait_polls = RacePolls
  /\ client = [t \in Tasks |-> IF t = 1 THEN Tools \cup {UnknownTool}
                                ELSE LifecycleTools]
  /\ server = InitServer
  /\ nextBrowser = 0
  /\ bstate = [b \in BrowserIds |-> "none"]
  /\ nextPage = 0
  /\ pstate = [p \in PageIds |-> "none"]
  /\ task = [t \in Tasks |-> IF t <= NumTasks THEN IdleTask ELSE OffTask]
  /\ NoShots
  /\ NoToolCalls
  /\ NoRedirect

\* One more task, on the default configuration and with a shorter wait
\* loop.
InitRace ==
  /\ impl \in Impls
  /\ config = [persistent_context |-> FALSE, user_data_dir |-> FALSE]
  /\ wait_polls = RacePolls
  /\ client = [t \in Tasks |-> IF t <= NumTasks THEN {"navigate"} ELSE RaceTools]
  /\ server = InitServer
  /\ nextBrowser = 0
  /\ bstate = [b \in BrowserIds |-> "none"]
  /\ nextPage = 0
  /\ pstate = [p \in PageIds |-> "none"]
  /\ task = [t \in Tasks |-> IF t <= RaceTasks THEN IdleTask ELSE OffTask]
  /\ NoShots
  /\ NoToolCalls
  /\ NoRedirect

\* The wait loop of 50 polls, on the default configuration.
InitWait ==
  /\ impl \in Impls
  /\ config = [persistent_context |-> FALSE, user_data_dir |-> FALSE]
  /\ wait_polls = WaitPolls
  /\ client = [t \in Tasks |-> IF t = 1 THEN WaitTools ELSE {"navigate"}]
  /\ server = InitServer
  /\ nextBrowser = 0
  /\ bstate = [b \in BrowserIds |-> "none"]
  /\ nextPage = 0
  /\ pstate = [p \in PageIds |-> "none"]
  /\ task = [t \in Tasks |-> IF t <= NumTasks THEN IdleTask ELSE OffTask]
  /\ NoShots
  /\ NoToolCalls
  /\ NoRedirect

\* The session after a navigation of the single-file server on the default
\* configuration; two clients take screenshots of pages that render
\* page_bytes.
InitShot ==
  /\ impl = "legacy"
  /\ config = [persistent_context |-> FALSE, user_data_dir |-> FALSE]
  /\ wait_polls = WaitPolls
  /\ client = [t \in Tasks |-> {"screenshot"}]
  /\ server = [browser |-> 1, browser_instance |-> 1, browser_context |-> 1,
               page |-> 1, browser_starting |-> FALSE]
  /\ nextBrowser = 1
  /\ bstate = [b \in BrowserIds |-> IF b = 1 THEN "closed" ELSE "none"]
  /\ nextPage = 1
  /\ pstate = [p \in PageIds |-> IF p = 1 THEN "open" ELSE "none"]
  /\ task = [t \in Tasks |-> IF t <= NumTasks THEN IdleTask ELSE OffTask]
  /\ page_bytes \in [Tasks -> Captures \cup OtherCaptures]
  /\ page_bytes[1] \in Captures
  /\ \A t \in Tasks : t > 1 => page_bytes[t] \in OtherCaptures
  /\ clock = 1
  /\ files = [n \in FileNames |-> NoFile]
  /\ shot = [t \in Tasks |-> IdleShot]
  /\ NoToolCalls
  /\ NoRedirect

\* Either server constructed on a configuration that requests the CAPTCHA
\* solver or not, with camoufox_captcha installed or not; __init__ turns
\* the request off when the package is missing.
InitTools ==
  /\ impl \in Impls
  /\ config = [persistent_context |-> FALSE, user_data_dir |-> FALSE]
  /\ wait_polls = WaitPolls
  /\ client = [t \in Tasks |-> {}]
  /\ server = InitServer
  /\ nextBrowser = 0
  /\ bstate = [b \in BrowserIds |-> "none"]
  /\ nextPage = 0
  /\ pstate = [p \in PageIds |-> "none"]
  /\ task = [t \in Tasks |-> IF t <= NumTasks THEN IdleTask ELSE OffTask]
  /\ NoShots
  /\ CAPTCHA_AVAILABLE \in BOOLEAN
  /\ \E requested \in BOOLEAN : captcha_solver = (requested /\ CAPTCHA_AVAILABLE)
  /\ listed = NoListing
  /\ routed = NoRouting
  /\ NoRedirect

NextTools == ListTools \/ RouteTool

\* A server in STDIO or in HTTP mode whose clients call navigate.
InitRedirect ==
  /\ impl \in Impls
  /\ config = [persistent_context |-> FALSE, user_data_dir |-> FALSE]
  /\ wait_polls = WaitPolls
  /\ client = [t \in Tasks |-> {"navigate"}]
  /\ server = InitServer
  /\ nextBrowser = 0
  /\ bstate = [b \in BrowserIds |-> "none"]
  /\ nextPage = 0
  /\ pstate = [p \in PageIds |-> "none"]
  /\ task = [t \in Tasks |-> IF t <= NumTasks THEN IdleTask ELSE OffTask]
  /\ NoShots
  /\ NoToolCalls
  /\ port \in BOOLEAN
  /\ fdtable = [fd \in Fds |-> IF fd = stdout_fd THEN "stdout"
                                ELSE IF fd = stderr_fd THEN "stderr"
                                ELSE "closed"]
  /\ sys_stdout = stdout_fd
  /\ redirect = [t \in Tasks |-> <<>>]

NextRedirect ==
  \E t \in Tasks : EnterRedirect(t) \/ ExitRedirect(t)

NextShot ==
  \/ \E t \in Tasks :
       \/ CallScreenshot(t)
       \/ ScreenshotWrites(t)
       \/ ScreenshotReturned(t)
       \/ ScreenshotRaised(t)
  \/ Tick

Next ==
  \E t \in Tasks :
    \/ CallNavigate(t)
    \/ CallClose(t)
    \/ CallClick(t)
    \/ AenterDone(t)
    \/ NewContextDone(t)
    \/ WithAexitDone(t)
    \/ WithAexitExcDone(t)
    \/ CleanupAexitDone(t)
    \/ SleepDone(t)
    \/ NewPageDone(t)
    \/ GotoDone(t)
    \/ TitleDone(t)
    \/ ClosePageDone(t)
    \/ CloseAexitDone(t)
    \/ ClickWaitForDone(t)
    \/ ClickDone(t)
    \/ CallType(t)
    \/ CallPageTool(t)
    \/ CallUnknown(t)
    \/ CallMissingArgument(t)
    \/ TypeWaitForDone(t)
    \/ TypeClearDone(t)
    \/ TypeDone(t)
    \/ PageCallDone(t)

Spec == Init /\ [][Next]_vars

SpecRace == InitRace /\ [][Next]_vars

SpecWait == InitWait /\ [][Next]_vars

SpecShot == InitShot /\ [][NextShot]_vars

SpecTools == InitTools /\ [][NextTools]_vars

SpecRedirect == InitRedirect /\ [][NextRedirect]_vars

(***************************************************************************)
(* Properties                                                              *)
(***************************************************************************)
Open == {b \in 1..nextBrowser : bstate[b] = "open"}
Launching == {t \in Tasks : task[t].pc \in {"aenter", "new_context", "with_aexit"}}
InFlight == {t \in Tasks : task[t].pc = "aenter"}
Closing == {t \in Tasks : task[t].pc \in {"close_page", "close_aexit"}}
ValidConfig == ~(config.persistent_context /\ ~config.user_data_dir)
StartupFailure == {"startup_error", "startup_timeout"}
LibraryFailure == {"new_page_error", "goto_error", "title_error", "click_error",
                   "type_error", "page_call_error"}

\* C1: of two overlapping _ensure_browser calls at most one launches, and a
\* call that waited for the other task's startup returns only when the
\* session is Ready.
C1_NoDoubleLaunch ==
  /\ Cardinality(Launching) <= 1
  /\ \A t \in Tasks :
       (task[t].ens.kind = "wait" /\ task[t].ens.how = "return")
         => Ready(task[t].ens.s)

\* C2: at most one browser handle exists: never two launches in flight and
\* never two browsers that were launched and not released.
C2_AtMostOneBrowser ==
  /\ Cardinality(InFlight) <= 1
  /\ Cardinality(Open) <= 1

\* C3: a call of _ensure_browser that set _browser_starting leaves it false
\* on every exit (return or raise), so the session is then Ready or Absent,
\* and the flag is never set while no task is inside the startup.
C3_StartingIsLeft ==
  /\ \A t \in Tasks :
       task[t].ens.kind = "launch"
         => /\ ~task[t].ens.s.browser_starting
            /\ (Ready(task[t].ens.s) /\ ~Absent(task[t].ens.s))
                 \/ (Absent(task[t].ens.s) /\ ~Ready(task[t].ens.s))
  /\ server.browser_starting
       => \E t \in Tasks :
            task[t].pc \in {"aenter", "new_context", "with_aexit", "with_aexit_exc"}

C3_Witness ==
  \E t \in Tasks : task[t].ens.kind = "launch" /\ task[t].ens.how = "raise"
                   /\ task[t].ens.launchFailed

\* C4: a browser_navigate on an Absent session, with no other task running
\* and every library call returning, makes one launch, one page creation
\* and one goto and returns the non-error text with URL and title.
C4_ColdNavigate ==
  \A t \in Tasks :
    LET r == task[t].res IN
    (r.tool = "navigate" /\ r.solo /\ r.track.allOk /\ ValidConfig
       /\ Absent(r.track.pre) /\ AllNull(r.track.pre))
      => /\ ~r.isError
         /\ r.text = "navigated"
         /\ r.track.calls.launch = 1
         /\ r.track.calls.new_page = 1
         /\ r.track.calls.goto = 1

\* C5: the page handle is non-null exactly when the session is Ready.
C5_PageIffReady == (server.page # None) <=> Ready(server)

\* C6: when _ensure_browser has launched and returns, server.page is set.
C6_EnsureStoresPage ==
  \A t \in Tasks :
    (task[t].ens.kind = "launch" /\ task[t].ens.how = "return")
      => task[t].ens.s.page # None

\* C7: when _ensure_browser raises after the launch call raised, browser,
\* browser_context and page are null and _browser_starting is false (so the
\* next _ensure_browser launches).
C7_Rollback ==
  \A t \in Tasks :
    (task[t].ens.how = "raise" /\ task[t].ens.launchFailed)
      => AllNull(task[t].ens.s) /\ Absent(task[t].ens.s)

\* C8: an operation that fails in its library call on a Ready session leaves
\* the session Ready with the same handles, and only a failure of
\* _ensure_browser or an explicit close runs the teardown.
C8_FailureIsolation ==
  /\ \A t \in Tasks :
       LET r == task[t].res IN
       (r.solo /\ r.isError /\ r.text \in LibraryFailure /\ Ready(r.track.pre))
         => /\ Ready(r.s)
            /\ r.s.browser = r.track.pre.browser
            /\ r.s.browser_context = r.track.pre.browser_context
            /\ r.track.pre.page # None => r.s.page = r.track.pre.page
  /\ \A t \in Closing :
       task[t].op = "close" \/ task[t].cause \in StartupFailure

\* C9: when close returns, browser, browser_context and page are null and no
\* startup is marked in progress.
C9_CloseLeavesAbsent ==
  \A t \in Tasks :
    task[t].res.tool = "close"
      => AllNull(task[t].res.s) /\ Absent(task[t].res.s)

\* C10: close, called with no other task running, returns a non-error
\* result and leaves the session Absent; called again right after, it
\* releases nothing.
C10_IdempotentClose ==
  \A t \in Tasks :
    LET r == task[t].res IN
    (r.tool = "close" /\ r.solo)
      => /\ ~r.isError
         /\ AllNull(r.s) /\ Absent(r.s)
         /\ r.track.afterClose => r.track.calls.release = 0

\* C11: in a close that found a page and a browser, the browser release
\* (__aexit__) begins only after this close's page.close() has returned or
\* raised, and when page.close() ends, raised or not, with the browser still
\* stored, the browser release begins.
C11_PageBeforeBrowser ==
  [][\A t \in Tasks :
       /\ (task[t].pc # "close_aexit" /\ task'[t].pc = "close_aexit"
              /\ task'[t].both)
            => /\ task[t].pc = "close_page"
               /\ task'[t].pageRel \in {"returned", "raised"}
       /\ (task[t].pc = "close_page" /\ task'[t].pc # "close_page"
              /\ server.browser # None)
            => /\ task'[t].pc = "close_aexit"
               /\ task'[t].mgr = server.browser
               /\ bstate'[server.browser] = "closed"]_vars

C11_Witness ==
  \E t \in Tasks : task[t].pc = "close_aexit" /\ task[t].both
                   /\ task[t].pageRel = "raised"

\* C12: no handle is released twice: page.close() is invoked at most once on
\* a page and __aexit__ at most once on a browser, and when a close returns
\* browser, page and browser_context are null.
C12_ReleasedOnce ==
  /\ \A t \in Tasks : task[t].rel # "again"
  /\ \A t \in Tasks : task[t].res.tool = "close" => AllNull(task[t].res.s)

\* C13: a get_content call (or another page operation) made right after a
\* close that left the session Absent launches the browser again and does
\* not return the browser-not-initialized error.
C13_CloseThenOperate ==
  \A t \in Tasks :
    LET r == task[t].res IN
    (r.tool \in PageTools \cup {"click", "type_text"} /\ r.solo
       /\ r.track.afterClose /\ Absent(r.track.pre) /\ AllNull(r.track.pre))
      => /\ r.text # "not_initialized"
         /\ r.track.calls.launch = 1

PageOperations == PageTools \cup {"click", "type_text"}

\* C14: click, type_text, wait_for, get_content, screenshot, execute_js and
\* set_geolocation, entered (their required arguments given) while page is
\* null, return at once the
\* error-flagged browser-not-initialized result: no library call is made or
\* left pending, no browser is launched, and browser, browser_context, page
\* and _browser_starting are unchanged.
C14_NoPageNoCall ==
  [][\A t \in Tasks :
       LET called == IF task'[t].pc = "idle" THEN task'[t].res.tool
                     ELSE task'[t].op IN
       (task[t].pc = "idle" /\ called \in PageOperations /\ server.page = None
          /\ task'[t].res.text # "tool_error")
         => /\ task'[t].pc = "idle"
            /\ task'[t].res.isError
            /\ task'[t].res.text = "not_initialized"
            /\ task'[t].rel = "none"
            /\ server' = server
            /\ nextBrowser' = nextBrowser /\ bstate' = bstate
            /\ nextPage' = nextPage /\ pstate' = pstate]_vars

C14_Witness ==
  \E t \in Tasks : /\ task[t].res.tool = "get_content"
                   /\ task[t].res.text = "not_initialized"
                   /\ task[t].res.s.browser_context # None
                   /\ task[t].res.s.page = None

\* C15: a call of _ensure_browser that waits for another task's startup
\* sleeps at most 50 times, and when the 50 polls have passed without the
\* session being Ready the call ends with the startup-timeout error.
C15_TimeoutCeiling ==
  \A t \in Tasks :
    /\ task[t].polls <= WaitPolls
    /\ wait_polls = WaitPolls
    /\ (task[t].ens.kind = "wait" /\ task[t].ens.polls = WaitPolls
          /\ ~Ready(task[t].ens.s))
         => task[t].ens.how = "raise"

\* C16: when a call whose _ensure_browser waited and failed with the startup
\* timeout returns, browser, browser_context and page are null and no
\* startup is marked in progress.
C16_TimeoutRollback ==
  \A t \in Tasks :
    task[t].res.text = "startup_timeout"
      => AllNull(task[t].res.s) /\ Absent(task[t].res.s)

FailureTexts ==
  LibraryFailure \cup StartupFailure \cup
    {"not_initialized", "page_none", "attribute_error", "unknown_tool",
     "tool_error"}

C18_NoUseAfterClose ==
  \A t \in Tasks : task[t].use = "none"

OperationCalls ==
  {"new_page", "goto", "title", "click_wait_for", "click_click",
   "type_wait_for", "type_clear", "type_type", "page_call"}

\* C19: an operation invokes a library call on the page or the browser
\* context only while the session is Ready, never while _browser_starting
\* is true.
C19_OperateOnlyWhenReady ==
  [][\A t \in Tasks :
       (task'[t].pc \in OperationCalls /\ task'[t].pc # task[t].pc)
         => Ready(server')]_vars

\* C20: within one session the page is created at most once: two navigate
\* calls never both call new_page() on the same browser context.
C20_OnePagePerSession ==
  \A t, u \in Tasks :
    (t # u /\ task[t].pc = "new_page" /\ task[u].pc = "new_page")
      => task[t].mgr # task[u].mgr

\* C21: _ensure_browser called while the session is Ready returns in the
\* same step without launching or waiting and leaves browser,
\* browser_context, page and _browser_starting as they were, so navigations
\* on a Ready session launch nothing.
C21_ReadyIsNoop ==
  [][\A t \in Tasks :
       LET called == IF task'[t].pc = "idle" THEN task'[t].res.tool
                     ELSE task'[t].op IN
       (task[t].pc = "idle" /\ called = "navigate" /\ Ready(server)
          /\ task'[t].res.text # "tool_error")
         => /\ task'[t].ens.kind = "noop"
            /\ task'[t].ens.how = "return"
            /\ task'[t].ens.s = server
            /\ task'[t].pc \notin {"aenter", "sleep"}
            /\ nextBrowser' = nextBrowser]_vars

C21_Witness ==
  \E t \in Tasks : /\ task[t].res.tool = "navigate"
                   /\ task[t].res.text = "navigated"
                   /\ task[t].res.solo
                   /\ Ready(task[t].res.track.pre)
                   /\ task[t].res.track.pre.page # None
                   /\ task[t].res.track.calls.launch = 0

Done(t) == shot[t].pc = "done" /\ ~shot[t].res.isError

C30_OwnCapture ==
  \A t \in Tasks :
    (Done(t) /\ shot[t].overlap)
      => b64decode(shot[t].res.content[1].data) = page_bytes[t]

\* C23: the names list_tools returns are the names call_tool routes to a
\* handler: the ten base tools for every configuration, and
\* browser_solve_captcha exactly when the CAPTCHA solver is enabled in the
\* configuration and available.
C23_ListedIsDispatched ==
  listed.done
    => /\ listed.names = {n \in ToolNames : Handler(n) # NoHandler}
       /\ BaseTools \subseteq listed.names
       /\ CaptchaTool \in listed.names <=> (captcha_solver /\ CAPTCHA_AVAILABLE)
       /\ routed.name # "none"
            => (routed.handler # NoHandler <=> routed.name \in listed.names)

\* C24: with persistent_context set and user_data_dir missing, every
\* _ensure_browser raises the startup error without a launch call: no
\* browser object exists, browser, browser_context and page are null and
\* _browser_starting is false when it raises and in every state, and the
\* navigate that called it returns the startup error.
C24_MissingUserDataDir ==
  ~ValidConfig
    => /\ nextBrowser = 0
       /\ \A b \in BrowserIds : bstate[b] = "none"
       /\ AllNull(server) /\ ~server.browser_starting
       /\ \A t \in Tasks :
            /\ task[t].track.calls.launch = 0
            /\ task[t].ens.kind # "none"
                 => /\ task[t].ens.kind = "launch" /\ task[t].ens.how = "raise"
                    /\ AllNull(task[t].ens.s)
                    /\ ~task[t].ens.s.browser_starting
            /\ (task[t].res.tool = "navigate" /\ task[t].res.text # "tool_error")
                 => task[t].res.isError /\ task[t].res.text = "startup_error"

C24_Witness ==
  /\ ~ValidConfig
  /\ \E t \in Tasks : /\ task[t].ens.kind = "launch" /\ task[t].ens.how = "raise"
                       /\ task[t].res.text = "startup_error"

\* C25: when navigate returns an error result, the session is Absent:
\* browser, browser_context and page are null and no startup is marked in
\* progress.
C25_NavigateErrorLeavesAbsent ==
  \A t \in Tasks :
    LET r == task[t].res IN
    (r.tool = "navigate" /\ r.isError /\ r.text # "tool_error")
      => AllNull(r.s) /\ Absent(r.s)

\* C26: whenever no task is inside a redirection block, standard output
\* goes where it went before the first redirection.
C26_RedirectionUndone ==
  (\A t \in Tasks : redirect[t] = <<>>) => StdoutDestination = "stdout"

\* C27: whenever the session is Ready, the browser whose startup produced
\* browser_context is entered and __aexit__ has not been invoked on it.
C27_ReadyBrowserIsOpen ==
  Ready(server) => bstate[server.browser_context] = "open"

\* C28: whenever no startup is marked in progress and browser is null,
\* browser_context is null too: no interleaving leaves browser_context
\* non-null with browser null.
C28_NoContextWithoutBrowser ==
  (~server.browser_starting /\ server.browser = None)
    => server.browser_context = None

\* C29: when _ensure_browser returns without raising, as the launching
\* task, as a waiting task or at once, browser_context is non-null at the
\* return.
C29_ReturnsWithContext ==
  \A t \in Tasks :
    task[t].ens.how = "return" => task[t].ens.s.browser_context # None

====
